---- MODULE Spec2Model ----
(***************************************************************************)
(* Model of src/app.py: the three signal generators (sma_strategy,         *)
(* rsi_strategy, macd_strategy), the trade simulator backtest() and the    *)
(* part of the top-level script that selects a strategy and calls          *)
(* backtest().                                                             *)
(*                                                                         *)
(* Numbers.  The program computes in IEEE doubles (Python float and        *)
(* numpy.float64).  A number is modelled as a pair <<n, d>>:               *)
(*   d > 0         the rational n/d in lowest terms,                       *)
(*   <<1, 0>>      +inf,   <<-1, 0>>  -inf,                                *)
(*   <<0, 0>>      NaN (pandas' "no value" marker).                        *)
(* Arithmetic follows the IEEE rules for the special values (x/0 = +-inf,  *)
(* 0/0 = NaN, NaN compares false with everything) and is exact on the      *)
(* rationals: rounding, signed zero, overflow and underflow of doubles are *)
(* not modelled.                                                           *)
(***************************************************************************)
EXTENDS Integers, Sequences, FiniteSets, TLC

VARIABLES
    strategy_choice,  \* app.py:118  the selector typed by the user
    strategy_name,    \* app.py:128  set by the strategy dispatch
    initial_balance,  \* app.py:120
    frame,            \* the DataFrame `data` of __main__: rows [Date, Close, Signal]
    data,             \* backtest's local `data` (after dropna)
    i,                \* backtest's loop index (0-based, as in range(len(data)))
    balance,          \* app.py:78
    position,         \* app.py:79
    trades,           \* app.py:80
    final_value,      \* app.py:98
    profit,           \* app.py:99
    profit_percent,   \* app.py:100
    error,            \* the exception that ended the run, "" when none
    pc                \* position in the script

vars == <<strategy_choice, strategy_name, initial_balance, frame, data, i,
          balance, position, trades, final_value, profit, profit_percent,
          error, pc>>

-----------------------------------------------------------------------------
(* Bounds of the model *)

\* closing prices of the directly enumerated frames are 1..MaxPrice
MaxPrice == 2
\* longest directly enumerated frame
MaxRows == 3
\* longest generated price series handed to the SMA and RSI strategies
MaxBars == 60
\* longest price series handed to the MACD strategy
MaxMacdBars == 2

-----------------------------------------------------------------------------
(* float arithmetic *)

NaN == <<0, 0>>
Inf == <<1, 0>>
Zero == <<0, 1>>

Abs(x) == IF x < 0 THEN -x ELSE x

Sign(x) == IF x < 0 THEN -1 ELSE IF x > 0 THEN 1 ELSE 0

RECURSIVE Gcd(_, _)
Gcd(a, b) == IF b = 0 THEN a ELSE Gcd(b, a % b)

\* the float n/d
Rat(n, d) ==
    IF d = 0 THEN <<Sign(n), 0>>
    ELSE LET g == Gcd(Abs(n), Abs(d))
             s == IF d < 0 THEN -1 ELSE 1
         IN  <<(s * n) \div g, (s * d) \div g>>

Num(k) == <<k, 1>>

IsNaN(x) == x = NaN

IsFinite(x) == x[2] # 0

Lcm(a, b) == (a \div Gcd(a, b)) * b

Neg(x) == <<-x[1], x[2]>>

Add(x, y) ==
    IF IsNaN(x) \/ IsNaN(y) THEN NaN
    ELSE IF IsFinite(x) /\ IsFinite(y)
         THEN LET l == Lcm(x[2], y[2])
              IN  Rat(x[1] * (l \div x[2]) + y[1] * (l \div y[2]), l)
    ELSE IF ~IsFinite(x) /\ ~IsFinite(y)
         THEN (IF x = y THEN x ELSE NaN)
    ELSE IF ~IsFinite(x) THEN x ELSE y

Sub(x, y) == Add(x, Neg(y))

Mul(x, y) ==
    IF x[2] = 0 \/ y[2] = 0 THEN <<Sign(x[1]) * Sign(y[1]), 0>>
    ELSE LET g1 == Gcd(Abs(x[1]), y[2])
             g2 == Gcd(Abs(y[1]), x[2])
         IN  Rat((x[1] \div g1) * (y[1] \div g2), (x[2] \div g2) * (y[2] \div g1))

\* 1/x
Inv(x) ==
    IF IsNaN(x) THEN NaN
    ELSE IF x[2] = 0 THEN Zero
    ELSE IF x[1] = 0 THEN Inf
    ELSE <<Sign(x[1]) * x[2], Abs(x[1])>>

Div(x, y) == Mul(x, Inv(y))

Lt(x, y) ==
    /\ ~IsNaN(x)
    /\ ~IsNaN(y)
    /\ IF x[2] = 0 /\ y[2] = 0 THEN x[1] < y[1]
       ELSE IF x[2] = 0 THEN x[1] < 0
       ELSE IF y[2] = 0 THEN y[1] > 0
       ELSE LET l == Lcm(x[2], y[2])
            IN  x[1] * (l \div x[2]) < y[1] * (l \div y[2])

Gt(x, y) == Lt(y, x)

Eq(x, y) == ~IsNaN(x) /\ ~IsNaN(y) /\ x = y

-----------------------------------------------------------------------------
(* backtest(data, initial_balance), app.py:73-102 *)

\* data.dropna(subset=['Signal', 'Close']): the Signal column is always set
\* to 0, 1 or -1 by the strategies, so only a NaN Close drops a row
Dropna(f) == SelectSeq(f, LAMBDA r : ~IsNaN(r.Close))

\* signal == 1 and position == 0
BuyBranch(signal, pos) == signal = 1 /\ Eq(pos, Zero)

\* a sell branch that forgets the position test: elif signal == -1
SellBranchUnguarded(signal, pos) == ~BuyBranch(signal, pos) /\ signal = -1

\* elif signal == -1 and position > 0
SellBranch(signal, pos) == ~BuyBranch(signal, pos) /\ signal = -1 /\ Gt(pos, Zero)

\* units computed with the wrong operator: position = balance * price
BuyUnitsTimes(bal, price) == Mul(bal, price)

\* position = balance / price
BuyUnits(bal, price) == Div(bal, price)

\* balance = position * price
SellProceeds(pos, price) == Mul(pos, price)

\* the wrong end of the frame: data['Close'].iloc[0]
FirstClose(d) == d[1].Close

\* data['Close'].iloc[-1]
LastClose(d) == d[Len(d)].Close

\* final_value = balance + (position * data['Close'].iloc[-1])
FinalValue(bal, pos, d) == Add(bal, Mul(pos, LastClose(d)))

\* profit = final_value - initial_balance
Profit(fv, init) == Sub(fv, init)

\* profit_percent = (profit / initial_balance) * 100
ProfitPercent(p, init) == Mul(Div(p, init), Num(100))

\* the row the loop reads at index i
Bar == data[i + 1]

BacktestEnter ==
    /\ pc = "backtest"
    /\ data' = Dropna(frame)
    /\ balance' = initial_balance
    /\ position' = Zero
    /\ trades' = <<>>
    /\ i' = 0
    /\ pc' = "loop"
    /\ UNCHANGED <<strategy_choice, strategy_name, initial_balance, frame,
                   final_value, profit, profit_percent, error>>

BarBuy ==
    /\ pc = "loop"
    /\ i < Len(data)
    /\ BuyBranch(Bar.Signal, position)
    /\ position' = BuyUnits(balance, Bar.Close)
    /\ balance' = Zero
    /\ trades' = Append(trades, <<Bar.Date, "BUY", Bar.Close>>)
    /\ i' = i + 1
    /\ UNCHANGED <<strategy_choice, strategy_name, initial_balance, frame, data,
                   final_value, profit, profit_percent, error, pc>>

BarSell ==
    /\ pc = "loop"
    /\ i < Len(data)
    /\ SellBranch(Bar.Signal, position)
    /\ balance' = SellProceeds(position, Bar.Close)
    /\ position' = Zero
    /\ trades' = Append(trades, <<Bar.Date, "SELL", Bar.Close>>)
    /\ i' = i + 1
    /\ UNCHANGED <<strategy_choice, strategy_name, initial_balance, frame, data,
                   final_value, profit, profit_percent, error, pc>>

BarSkip ==
    /\ pc = "loop"
    /\ i < Len(data)
    /\ ~BuyBranch(Bar.Signal, position)
    /\ ~SellBranch(Bar.Signal, position)
    /\ i' = i + 1
    /\ UNCHANGED <<strategy_choice, strategy_name, initial_balance, frame, data,
                   balance, position, trades, final_value, profit,
                   profit_percent, error, pc>>

\* lines 98-102 on a non-empty frame
BacktestReturn ==
    /\ pc = "loop"
    /\ i = Len(data)
    /\ Len(data) > 0
    /\ final_value' = FinalValue(balance, position, data)
    /\ profit' = Profit(final_value', initial_balance)
    /\ profit_percent' = ProfitPercent(profit', initial_balance)
    /\ pc' = "done"
    /\ UNCHANGED <<strategy_choice, strategy_name, initial_balance, frame, data,
                   i, balance, position, trades, error>>

\* line 98 on an empty frame: iloc[-1] raises IndexError
BacktestIndexError ==
    /\ pc = "loop"
    /\ i = Len(data)
    /\ Len(data) = 0
    /\ error' = "IndexError"
    /\ pc' = "error"
    /\ UNCHANGED <<strategy_choice, strategy_name, initial_balance, frame, data,
                   i, balance, position, trades, final_value, profit,
                   profit_percent>>

BacktestNext ==
    \/ BacktestEnter
    \/ BarBuy
    \/ BarSell
    \/ BarSkip
    \/ BacktestReturn
    \/ BacktestIndexError

-----------------------------------------------------------------------------
(* Signal generators, app.py:21-70 *)

\* sma_strategy's windows (app.py:24-25)
FastWindow == 20
SlowWindow == 50
\* rsi_strategy's defaults (app.py:37)
RsiPeriod == 14
Overbought == 70
Oversold == 30
\* macd_strategy's spans (app.py:59-62)
FastSpan == 12
SlowSpan == 26
SignalSpan == 9

\* the column whose k-th entry is col[k], for k in 1..n, as a sequence
\* (each entry computed once)
Column(col, n) == SubSeq(col, 1, n)

\* the Close column
CloseOf(f) == Column([k \in 1..Len(f) |-> f[k].Close], Len(f))

\* xs[lo] + ... + xs[hi], summed by halves (the sum of exact values does not
\* depend on the order)
RECURSIVE SumRange(_, _, _)
SumRange(xs, lo, hi) ==
    IF lo > hi THEN Zero
    ELSE IF lo = hi THEN xs[lo]
    ELSE LET mid == (lo + hi) \div 2
         IN  Add(SumRange(xs, lo, mid), SumRange(xs, mid + 1, hi))

\* a rolling mean with min_periods=1: the mean of the bars seen so far while
\* fewer than w are available
RollingMeanPartial(xs, w) ==
    Column([k \in 1..Len(xs) |->
               IF k < w THEN Div(SumRange(xs, 1, k), Num(k))
               ELSE Div(SumRange(xs, k - w + 1, k), Num(w))],
           Len(xs))

\* Series.rolling(window=w).mean(): min_periods defaults to the window, so
\* the first w-1 entries are NaN; a NaN in the window makes the mean NaN
RollingMean(xs, w) ==
    Column([k \in 1..Len(xs) |->
               IF k < w THEN NaN ELSE Div(SumRange(xs, k - w + 1, k), Num(w))],
           Len(xs))

\* Series.diff(): NaN first, then the difference with the previous entry
Diff(xs) ==
    Column([k \in 1..Len(xs) |-> IF k = 1 THEN NaN ELSE Sub(xs[k], xs[k - 1])],
           Len(xs))

\* data['Signal'] = 0; data.loc[a > b, 'Signal'] = 1; data.loc[a < b, 'Signal'] = -1
SignalOf(a, b) == IF Lt(a, b) THEN -1 ELSE IF Gt(a, b) THEN 1 ELSE 0

\* data['Position'] = data['Signal'].diff()
PositionColumn(sig) == Diff(Column([k \in 1..Len(sig) |-> Num(sig[k])], Len(sig)))

\* sma_strategy(data), app.py:21-33
sma_strategy(f) ==
    LET sma20 == RollingMean(CloseOf(f), FastWindow)
        sma50 == RollingMean(CloseOf(f), SlowWindow)
        sig == Column([k \in 1..Len(f) |-> SignalOf(sma20[k], sma50[k])], Len(f))
        pos == PositionColumn(sig)
    IN  [k \in 1..Len(f) |->
            [Date |-> f[k].Date, Close |-> f[k].Close, SMA20 |-> sma20[k],
             SMA50 |-> sma50[k], Signal |-> sig[k], Position |-> pos[k]]]

\* delta.where(delta > 0, 0): keeps delta where it is positive, else 0
\* (the NaN first delta compares false and becomes 0)
Gains(delta) ==
    Column([k \in 1..Len(delta) |-> IF Gt(delta[k], Zero) THEN delta[k] ELSE Zero],
           Len(delta))

\* -delta.where(delta < 0, 0)
Losses(delta) ==
    Column([k \in 1..Len(delta) |-> IF Lt(delta[k], Zero) THEN Neg(delta[k]) ELSE Zero],
           Len(delta))

\* 100 - (100 / (1 + rs)) with rs = gain / loss
RsiValue(gain, loss) ==
    Sub(Num(100), Div(Num(100), Add(Num(1), Div(gain, loss))))

\* Signal = 1 where RSI < oversold, -1 where RSI > overbought, else 0
RsiSignal(rsi) ==
    IF Gt(rsi, Num(Overbought)) THEN -1
    ELSE IF Lt(rsi, Num(Oversold)) THEN 1 ELSE 0

\* rsi_strategy(data), app.py:37-53
rsi_strategy(f) ==
    LET delta == Diff(CloseOf(f))
        gain == RollingMean(Gains(delta), RsiPeriod)
        loss == RollingMean(Losses(delta), RsiPeriod)
        rsi == Column([k \in 1..Len(f) |-> RsiValue(gain[k], loss[k])], Len(f))
        sig == Column([k \in 1..Len(f) |-> RsiSignal(rsi[k])], Len(f))
        pos == PositionColumn(sig)
    IN  [k \in 1..Len(f) |->
            [Date |-> f[k].Date, Close |-> f[k].Close, RSI |-> rsi[k],
             Signal |-> sig[k], Position |-> pos[k]]]

\* Series.ewm(span=span, adjust=False).mean(): y[1] = x[1],
\* y[k] = alpha * x[k] + (1 - alpha) * y[k-1] with alpha = 2 / (span + 1).
\* (pandas carries the mean over a NaN entry that follows a value; the series
\* of this model have either no NaN or nothing else, where both give NaN.)
RECURSIVE Ewm(_, _, _)
Ewm(xs, span, n) ==
    IF n = 0 THEN <<>>
    ELSE IF n = 1 THEN <<xs[1]>>
    ELSE LET prev == Ewm(xs, span, n - 1)
             alpha == Rat(2, span + 1)
         IN  Append(prev, Add(Mul(alpha, xs[n]),
                              Mul(Sub(Num(1), alpha), prev[n - 1])))

\* macd_strategy(data), app.py:56-70
macd_strategy(f) ==
    LET n == Len(f)
        ema12 == Ewm(CloseOf(f), FastSpan, n)
        ema26 == Ewm(CloseOf(f), SlowSpan, n)
        macd == Column([k \in 1..n |-> Sub(ema12[k], ema26[k])], n)
        line == Ewm(macd, SignalSpan, n)
        sig == Column([k \in 1..n |-> SignalOf(macd[k], line[k])], n)
        pos == PositionColumn(sig)
    IN  [k \in 1..n |->
            [Date |-> f[k].Date, Close |-> f[k].Close, EMA12 |-> ema12[k],
             EMA26 |-> ema26[k], MACD |-> macd[k], Signal_Line |-> line[k],
             Signal |-> sig[k], Position |-> pos[k]]]

-----------------------------------------------------------------------------
(* __main__, app.py:118-141 *)

\* fetch_data returned a non-empty frame (app.py:10 not taken)
FetchOk ==
    /\ pc = "fetch"
    /\ Len(frame) > 0
    /\ pc' = "dispatch"
    /\ UNCHANGED <<strategy_choice, strategy_name, initial_balance, frame, data,
                   i, balance, position, trades, final_value, profit,
                   profit_percent, error>>

\* fetch_data: data.empty raises ValueError (app.py:10-11)
FetchEmpty ==
    /\ pc = "fetch"
    /\ Len(frame) = 0
    /\ error' = "ValueError"
    /\ pc' = "error"
    /\ UNCHANGED <<strategy_choice, strategy_name, initial_balance, frame, data,
                   i, balance, position, trades, final_value, profit,
                   profit_percent>>

\* if strategy_choice == '1' (app.py:126-128)
ChooseSMA ==
    /\ pc = "dispatch"
    /\ strategy_choice = "1"
    /\ frame' = sma_strategy(frame)
    /\ strategy_name' = "SMA Crossover Strategy"
    /\ pc' = "backtest"
    /\ UNCHANGED <<strategy_choice, initial_balance, data, i, balance, position,
                   trades, final_value, profit, profit_percent, error>>

\* elif strategy_choice == '2' (app.py:129-131)
ChooseRSI ==
    /\ pc = "dispatch"
    /\ strategy_choice = "2"
    /\ frame' = rsi_strategy(frame)
    /\ strategy_name' = "RSI Strategy"
    /\ pc' = "backtest"
    /\ UNCHANGED <<strategy_choice, initial_balance, data, i, balance, position,
                   trades, final_value, profit, profit_percent, error>>

\* elif strategy_choice == '3' (app.py:132-134)
ChooseMACD ==
    /\ pc = "dispatch"
    /\ strategy_choice = "3"
    /\ frame' = macd_strategy(frame)
    /\ strategy_name' = "MACD Strategy"
    /\ pc' = "backtest"
    /\ UNCHANGED <<strategy_choice, initial_balance, data, i, balance, position,
                   trades, final_value, profit, profit_percent, error>>

\* else: "Invalid choice. Defaulting to SMA Crossover." (app.py:135-138)
ChooseDefault ==
    /\ pc = "dispatch"
    /\ strategy_choice \notin {"1", "2", "3"}
    /\ frame' = sma_strategy(frame)
    /\ strategy_name' = "SMA Crossover Strategy"
    /\ pc' = "backtest"
    /\ UNCHANGED <<strategy_choice, initial_balance, data, i, balance, position,
                   trades, final_value, profit, profit_percent, error>>

MainNext ==
    \/ FetchOk
    \/ FetchEmpty
    \/ ChooseSMA
    \/ ChooseRSI
    \/ ChooseMACD
    \/ ChooseDefault
    \/ BacktestEnter
    \/ BarBuy
    \/ BarSell
    \/ BarSkip
    \/ BacktestReturn
    \/ BacktestIndexError

-----------------------------------------------------------------------------
(* Inputs *)

\* float(input(...)) accepts any number: negative, zero and positive capital
Capitals == {Num(-1), Num(0), Num(1)}

\* closing prices of a directly enumerated frame: positive, or NaN
Closes == {Num(p) : p \in 1..MaxPrice} \cup {NaN}

Signals == {-1, 0, 1}

\* the annotated frame with closes c and signals s; Date is the row's index
AnnotatedFrame(c, s) ==
    [k \in DOMAIN c |-> [Date |-> k, Close |-> c[k], Signal |-> s[k]]]

\* backtest() called on an annotated frame (app.py:141), whatever produced
\* it: every frame of at most MaxRows rows
InitBacktest ==
    /\ strategy_choice = "any"
    /\ strategy_name = "any"
    /\ initial_balance \in Capitals
    /\ \E n \in 0..MaxRows :
          \E c \in [1..n -> Closes], s \in [1..n -> Signals] :
              frame = AnnotatedFrame(c, s)
    /\ data = <<>>
    /\ i = 0
    /\ balance = NaN
    /\ position = NaN
    /\ trades = <<>>
    /\ final_value = NaN
    /\ profit = NaN
    /\ profit_percent = NaN
    /\ error = ""
    /\ pc = "backtest"

Spec == InitBacktest /\ [][BacktestNext]_vars

\* what the user may type at app.py:118: the three selectors and another one
Choices == {"1", "2", "3", "7"}

\* n closes evenly spaced from lo to hi, as numpy.linspace(lo, hi, n)
Linspace(lo, hi, n) ==
    [k \in 1..n |-> IF n = 1 THEN Num(lo) ELSE Rat(lo * (n - 1) + (hi - lo) * (k - 1), n - 1)]

\* n closes starting at 100 that step up by u and down by v in turn
Zigzag(u, v, n) ==
    [k \in 1..n |-> Num(100 + u * (k \div 2) - v * ((k - 1) \div 2))]

\* n closes that move by d a bar away from 150 at the middle bar: a fall and
\* a rise for d > 0, a rise and a fall for d < 0
Vee(d, n) == [k \in 1..n |-> Num(150 + d * Abs(k - (n + 1) \div 2))]

\* n bars whose close is missing
Missing(n) == [k \in 1..n |-> NaN]

\* the price series of the generated runs: ramps between 100 and 200,
\* zigzags (constant for u = v = 0, non-decreasing for v = 0), a fall followed
\* by a rise and the reverse, and a series with no close at all
SeriesOfLength(n) ==
    {Linspace(100, 200, n), Linspace(200, 100, n), Missing(n)}
    \cup {Zigzag(u, v, n) : u \in {0, 3}, v \in {0, 1}}
    \cup {Vee(d, n) : d \in {-2, 2}}

\* the frame fetch_data returns for a price series
FrameOf(closes) == [k \in 1..Len(closes) |-> [Date |-> k, Close |-> closes[k]]]

\* the series a strategy may be run on in the model: the denominators of the
\* exponential means grow with every bar, so MACD runs are kept short
BarsFor(choice) == IF choice = "3" THEN 0..MaxMacdBars ELSE 0..MaxBars

\* the script after its inputs are read (app.py:110-120), before fetch_data
InitMain ==
    /\ strategy_choice \in Choices
    /\ strategy_name = ""
    /\ initial_balance \in Capitals
    /\ \E n \in BarsFor(strategy_choice) :
          \E closes \in SeriesOfLength(n) : frame = FrameOf(closes)
    /\ data = <<>>
    /\ i = 0
    /\ balance = NaN
    /\ position = NaN
    /\ trades = <<>>
    /\ final_value = NaN
    /\ profit = NaN
    /\ profit_percent = NaN
    /\ error = ""
    /\ pc = "fetch"

SpecMain == InitMain /\ [][MainNext]_vars

-----------------------------------------------------------------------------
(* Properties of backtest(), checked under Spec *)

\* a bar of the loop is about to be replayed
AtBar == pc = "loop" /\ i < Len(data)

Flat == Eq(position, Zero)

Invested == Gt(position, Zero)

\* the trade log reads BUY, SELL, BUY, SELL, ...
Alternates(t) ==
    \A k \in 1..Len(t) : t[k][2] = (IF k % 2 = 1 THEN "BUY" ELSE "SELL")

\* C1: the trade log of every run alternates BUY, SELL, BUY, SELL, ...,
\* starting with BUY; no two consecutive events have the same action.
C1_TradesAlternate == Alternates(trades)

\* With a positive initial balance the log does alternate (the runs that
\* break C1_TradesAlternate all start from initial_balance = 0).
FundedTradesAlternate == Gt(initial_balance, Zero) => Alternates(trades)

\* C2: after every bar exactly one of {balance > 0, position > 0} holds.
C2_ExactlyOneOfCashOrUnits ==
    (pc \in {"loop", "done"} /\ i >= 1) =>
        (Gt(balance, Zero) /\ ~Gt(position, Zero))
        \/ (~Gt(balance, Zero) /\ Gt(position, Zero))

\* With a positive initial balance exactly one of the two is positive.
FundedExactlyOne == Gt(initial_balance, Zero) => C2_ExactlyOneOfCashOrUnits

\* x = n/d as an equation between integers (n, d given as floats a, b)
IsQuotient(x, a, b) == IsFinite(x) /\ x[1] * a[2] * b[1] = x[2] * a[1] * b[2]

\* x = a * b as an equation between integers
IsProduct(x, a, b) == IsFinite(x) /\ x[1] * a[2] * b[2] = x[2] * a[1] * b[1]

\* C3: a Buy signal while Flat turns the whole balance into units at the
\* bar's close (units = cash / price, cash = 0) and appends one BUY event with
\* the bar's date and close; a Sell signal while Invested turns all units into
\* cash at the bar's close (cash = units * price, units = 0) and appends one
\* SELL event with the bar's date and close.
C3_BuyAndSellTransitions ==
    [][ /\ (AtBar /\ Bar.Signal = 1 /\ Flat) =>
              /\ IsQuotient(position', balance, Bar.Close)
              /\ balance' = Zero
              /\ trades' = Append(trades, <<Bar.Date, "BUY", Bar.Close>>)
        /\ (AtBar /\ Bar.Signal = -1 /\ Invested) =>
              /\ IsProduct(balance', position, Bar.Close)
              /\ position' = Zero
              /\ trades' = Append(trades, <<Bar.Date, "SELL", Bar.Close>>)
      ]_vars

\* a round trip has happened: bought at one close, sold at another
C3_Witness ==
    /\ Len(trades) = 2
    /\ trades[1][2] = "BUY"
    /\ trades[2][2] = "SELL"
    /\ trades[1][3] # trades[2][3]
    /\ trades[1][1] < trades[2][1]
    /\ Gt(balance, Zero)
    /\ Flat

\* C4: a Sell or Neutral bar while Flat, and a Buy or Neutral bar while
\* Invested, leave balance, position and the trade log unchanged.
C4_NoOpBars ==
    [][ (AtBar /\ \/ (Flat /\ Bar.Signal \in {-1, 0})
                  \/ (Invested /\ Bar.Signal \in {1, 0}))
        => UNCHANGED <<balance, position, trades>> ]_vars

\* a Buy bar was replayed while Invested, and a Sell bar while Flat before it
C4_Witness ==
    /\ pc = "loop"
    /\ i = 3
    /\ data[1].Signal = -1
    /\ data[2].Signal = 1
    /\ data[3].Signal = 1
    /\ Len(trades) = 1
    /\ trades[1][1] = data[2].Date
    /\ Invested

\* C5: on return final_value = balance + position * last close, profit =
\* final_value - initial_balance, profit_percent = profit / initial_balance *
\* 100; an open position is only valued: no event is appended and position
\* and balance are left as they are.
C5_Summary ==
    [][ (pc = "loop" /\ pc' = "done") =>
          /\ final_value' = Add(balance, Mul(position, data[Len(data)].Close))
          /\ Add(profit', initial_balance) = final_value'
          /\ IF initial_balance = Zero
             THEN ~IsFinite(profit_percent')
             ELSE IsQuotient(profit_percent', Mul(profit', Num(100)), initial_balance)
          /\ UNCHANGED <<balance, position, trades>>
      ]_vars

\* returned with a position open that was entered at another price than the
\* last close
C5_Witness ==
    /\ pc = "done"
    /\ Invested
    /\ Len(trades) = 1
    /\ trades[1][3] # data[Len(data)].Close
    /\ Gt(profit, Zero)

\* C7: backtest() returns a summary only when the frame it was given is
\* non-empty after dropna and its final bar has a closing price; otherwise it
\* ends in an error.
C7_NoSubstitutedClose ==
    pc = "done" =>
        /\ Len(Dropna(frame)) > 0
        /\ ~IsNaN(frame[Len(frame)].Close)

\* an empty frame after dropna does end in an error
EmptyFrameRaises ==
    (pc \in {"done", "error"} /\ Len(Dropna(frame)) = 0) => error = "IndexError"

-----------------------------------------------------------------------------
(* Properties of the strategies and of the script, checked under SpecMain *)

\* a strategy has annotated the frame
Annotated == pc \in {"backtest", "loop", "done"} \/ (pc = "error" /\ error = "IndexError")

\* every close of the frame is a price
AllPriced == \A k \in 1..Len(frame) : ~IsNaN(frame[k].Close)

AllNeutral == \A k \in 1..Len(frame) : frame[k].Signal = 0

\* C6: with a strategy selector other than 1, 2, 3, or an initial balance
\* that is not positive, the run stops before any strategy function or
\* backtest() step executes and produces no trade log and no summary.
C6_InvalidConfigurationRejected ==
    (strategy_choice \notin {"1", "2", "3"} \/ ~Gt(initial_balance, Zero)) =>
        /\ pc \in {"fetch", "dispatch", "error"}
        /\ strategy_name = ""
        /\ trades = <<>>
        /\ IsNaN(final_value)

\* the longest window the strategy named `name` computes with
LongestWindow(name) ==
    IF name = "SMA Crossover Strategy" THEN SlowWindow
    ELSE IF name = "RSI Strategy" THEN RsiPeriod
    ELSE SlowSpan

\* the outcome of a run without a signal: no trade, the capital unchanged
DegenerateOutcome ==
    /\ AllNeutral
    /\ error = ""
    /\ trades = <<>>
    /\ pc = "done" => Eq(final_value, initial_balance)

\* C8: for each of SMA, RSI and MACD a price series shorter than the
\* strategy's longest window gets a Neutral signal on every bar, and
\* backtest() returns with no trade and final_value = initial_balance.
C8_ShortSeriesNeutral ==
    (Annotated /\ AllPriced /\ Len(frame) < LongestWindow(strategy_name))
        => DegenerateOutcome

\* C8 as amended: the same for SMA on fewer than 50 bars and for RSI on fewer
\* than 14 bars; for MACD, whose means start at the first close, only for a
\* single bar.
C8_ShortSeriesNeutralAmended ==
    (Annotated /\ AllPriced
       /\ IF strategy_name = "MACD Strategy" THEN Len(frame) = 1
          ELSE Len(frame) < LongestWindow(strategy_name))
        => DegenerateOutcome

\* an SMA run on 49 rising bars has returned: on the last bar SMA20 is above
\* every close of the first half and SMA50 has no value yet
C8_Witness ==
    /\ pc = "done"
    /\ strategy_choice = "1"
    /\ Len(frame) = SlowWindow - 1
    /\ \A k \in 1..(Len(frame) - 1) : Lt(frame[k].Close, frame[k + 1].Close)
    /\ Gt(frame[Len(frame)].SMA20, frame[FastWindow].Close)
    /\ IsNaN(frame[Len(frame)].SMA50)
    /\ Gt(initial_balance, Zero)
    /\ Eq(final_value, initial_balance)

\* rsi_strategy's local `loss`, recomputed from the Close column
LossColumn == RollingMean(Losses(Diff(CloseOf(frame))), RsiPeriod)

\* rsi_strategy's local `gain`
GainColumn == RollingMean(Gains(Diff(CloseOf(frame))), RsiPeriod)

\* C9: on every bar of a price series whose average loss over the 14 bars is
\* zero, RSI is 100 and the signal is Sell; no error is raised.
C9_ZeroLossSaturates ==
    (pc = "backtest" /\ strategy_name = "RSI Strategy" /\ AllPriced) =>
        /\ error = ""
        /\ LET loss == LossColumn
           IN  \A k \in 1..Len(frame) :
                   loss[k] = Zero =>
                       frame[k].RSI = Num(100) /\ frame[k].Signal = -1

\* With a positive average gain the zero average loss does give RSI 100 and
\* Sell; with both averages zero RSI is NaN and the signal Neutral.
ZeroLossByGain ==
    (pc = "backtest" /\ strategy_name = "RSI Strategy") =>
        LET loss == LossColumn
            gain == GainColumn
        IN  \A k \in 1..Len(frame) :
                loss[k] = Zero =>
                    IF Gt(gain[k], Zero)
                    THEN frame[k].RSI = Num(100) /\ frame[k].Signal = -1
                    ELSE IsNaN(frame[k].RSI) /\ frame[k].Signal = 0

\* the frame holds the 60 closes evenly spaced from 100 to 200
IsRamp ==
    /\ Len(frame) = 60
    /\ \A k \in 1..60 : frame[k].Close = Linspace(100, 200, 60)[k]

\* one BUY at the first bar with SMA20 > SMA50, Neutral before it, the units
\* kept, and final_value = initial_balance / entry price * 200
RampOutcome ==
    /\ Len(trades) = 1
    /\ LET e == trades[1][1]
       IN  /\ trades[1] = <<e, "BUY", frame[e].Close>>
           /\ Gt(frame[e].SMA20, frame[e].SMA50)
           /\ \A k \in 1..(e - 1) :
                 frame[k].Signal = 0 /\ ~Gt(frame[k].SMA20, frame[k].SMA50)
           /\ IsQuotient(position, initial_balance, frame[e].Close)
           /\ IsQuotient(final_value, Mul(initial_balance, Num(200)), frame[e].Close)

\* C10: on the 60 closes rising evenly from 100 to 200, sma_strategy() and
\* backtest() give exactly one trade, a BUY at the first bar where SMA20 >
\* SMA50, held to the end, and final_value = initial_balance / entry * 200.
C10_RampScenario ==
    (pc = "done" /\ strategy_name = "SMA Crossover Strategy" /\ IsRamp)
        => RampOutcome

\* With a positive initial balance the scenario comes out as stated.
FundedRampScenario ==
    (pc = "done" /\ strategy_name = "SMA Crossover Strategy" /\ IsRamp
       /\ Gt(initial_balance, Zero))
        => RampOutcome /\ trades[1][1] = SlowWindow

====
